---- MODULE Spec2Model ----
(***************************************************************************)
(* Content index of the notes service (src/src/server.ts): the markdown    *)
(* cache, the published file tree, the chokidar event handlers with their  *)
(* suspension points, and the JSON query routes.                           *)
(*                                                                         *)
(* Text (file names, relative paths, slugs, titles, HTML) is a sequence of *)
(* one-character strings, so that the string operations of the source      *)
(* (replace, endsWith, includes, toLowerCase, the regular expressions) are *)
(* computed character by character.                                        *)
(***************************************************************************)
EXTENDS Integers, Sequences, FiniteSets, Bags, TLC

(***************************************************************************)
(* Bounds of the model.                                                    *)
(***************************************************************************)
\* filesystem changes (each one raises one watcher event) in a run
MaxEvents == 2
\* filesystem changes in a run that also takes HTTP requests
MaxApiEvents == 1
\* filesystem changes in a run that records what each rebuild could see
MaxMixEvents == 2
\* filesystem changes in a run in which reads may fail
MaxFaultEvents == 1
\* filesystem changes in a run on a directory with two documents of one slug
MaxSlugEvents == 1
\* documents of the generated content directory that the search scans
MaxPages == 22

(***************************************************************************)
(* Text helpers: the JavaScript string operations the source uses.         *)
(***************************************************************************)
Md == <<".", "m", "d">>

\* String.prototype.endsWith('.md')
EndsWithMd(t) ==
  Len(t) >= 3 /\ SubSeq(t, Len(t) - 2, Len(t)) = Md

\* .replace(/\.md$/, '')
StripMd(t) ==
  IF EndsWithMd(t) THEN SubSeq(t, 1, Len(t) - 3) ELSE t

\* .replace(/\\/g, '/')
BackslashToSlash(t) ==
  [i \in 1..Len(t) |-> IF t[i] = "\\" THEN "/" ELSE t[i]]

\* relPath.replace(/\.md$/, '').replace(/\\/g, '/')
SlugOfPath(relPath) ==
  BackslashToSlash(StripMd(relPath))

\* path.join(relativePath, entry.name) on a POSIX host
PathJoin(dir, name) ==
  IF dir = <<>> THEN name ELSE dir \o <<"/">> \o name

\* one character of String.prototype.toLowerCase
LowerChar(c) ==
  CASE c = "A" -> "a"
    [] c = "B" -> "b"
    [] c = "H" -> "h"
    [] OTHER -> c

\* String.prototype.toLowerCase
ToLowerCase(t) ==
  [i \in 1..Len(t) |-> LowerChar(t[i])]

\* String.prototype.includes
Includes(t, q) ==
  \E i \in 0..(Len(t) - Len(q)) : SubSeq(t, i + 1, i + Len(q)) = q

\* rank of a character under localeCompare (lower-case letters and digits)
CharRank(c) ==
  CASE c = "a" -> 1
    [] c = "b" -> 2
    [] c = "f" -> 3
    [] c = "g" -> 4
    [] c = "n" -> 5
    [] OTHER -> 9

RECURSIVE LocaleCompare(_, _)
\* a.name.localeCompare(b.name): negative, zero or positive
LocaleCompare(a, b) ==
  IF a = <<>> /\ b = <<>> THEN 0
  ELSE IF a = <<>> THEN -1
  ELSE IF b = <<>> THEN 1
  ELSE IF CharRank(Head(a)) < CharRank(Head(b)) THEN -1
  ELSE IF CharRank(Head(a)) > CharRank(Head(b)) THEN 1
  ELSE LocaleCompare(Tail(a), Tail(b))

\* every enumeration of a finite set as a sequence (an unspecified readdir order)
Perms(S) ==
  {p \in [1..Cardinality(S) -> S] : \A i, j \in 1..Cardinality(S) : i # j => p[i] # p[j]}

(***************************************************************************)
(* The content directory: a root holding a.md, g.md, the folder f (holding *)
(* f/b.md) and one file that is no document.                               *)
(***************************************************************************)
FileA == <<"a", ".", "m", "d">>
FileG == <<"g", ".", "m", "d">>
FileB == <<"f", "/", "b", ".", "m", "d">>
DocPaths == {FileA, FileG, FileB}
FolderF == <<"f">>
NotesTxt == <<"n">>

\* CONTENT_DIR
CONTENT_DIR == <<"/", "c">>

\* file contents as gray-matter splits them: the front matter and the markdown
RawAlpha ==
  [data |-> [title |-> <<"A", "b">>, description |-> <<"d">>], content |-> <<"H">>]
RawPlain ==
  [data |-> [title |-> <<>>, description |-> <<>>], content |-> <<"<", "x", ">", "a">>]
Raws == {RawAlpha, RawPlain}

\* the positions of the path separator in a relative path
SlashIdx(p) == {i \in 1..Len(p) : p[i] = "/"}
LastSlash(p) == CHOOSE i \in SlashIdx(p) : \A j \in SlashIdx(p) : j <= i
\* path.dirname / path.basename of a relative path
DirName(p) == IF SlashIdx(p) = {} THEN <<>> ELSE SubSeq(p, 1, LastSlash(p) - 1)
BaseName(p) == IF SlashIdx(p) = {} THEN p ELSE SubSeq(p, LastSlash(p) + 1, Len(p))

\* a symbolic link in the content root, named like a document, to a readable
\* file (the disk maps it to the content of its target)
LinkS == <<"s", ".", "m", "d">>

\* a document in the content root whose name holds a backslash (a legal
\* character of a POSIX file name)
FileBackB == <<"f", "\\", "b", ".", "m", "d">>

\* the kind lstat reports for a path of the disk
KindOf(p) == IF p = LinkS THEN "symlink" ELSE "file"

\* fs.readdir(dir, { withFileTypes: true }) on the disk d: the Dirents of a directory
Readdir(d, dirRel) ==
  {[name |-> BaseName(p), kind |-> KindOf(p)] : p \in {q \in DOMAIN d : DirName(q) = dirRel}}
    \cup (IF dirRel = <<>>
          THEN {[name |-> FolderF, kind |-> "dir"], [name |-> NotesTxt, kind |-> "file"]}
          ELSE {})

\* Dirent.isDirectory()
IsDirectory(e) == e.kind = "dir"

(***************************************************************************)
(* parseMarkdownFile: gray-matter, marked, DOMPurify, slug.                *)
(***************************************************************************)
\* marked(content) with breaks/gfm: one paragraph of inline text
Marked(content) ==
  <<"<", "p", ">">> \o content \o <<"<", "/", "p", ">", "\n">>

RECURSIVE Sanitize(_)
\* DOMPurify.sanitize with the allow-list: the tag <x> is not allowed and is
\* dropped, its text content kept
Sanitize(html) ==
  IF html = <<>> THEN <<>>
  ELSE IF Len(html) >= 3 /\ SubSeq(html, 1, 3) = <<"<", "x", ">">>
       THEN Sanitize(SubSeq(html, 4, Len(html)))
  ELSE <<Head(html)>> \o Sanitize(Tail(html))

\* parseMarkdownFile(filePath, relativePath) on the bytes the read returned
parseMarkdownFile(raw, relativePath) ==
  [frontmatter |-> raw.data,
   content |-> Sanitize(Marked(raw.content)),
   slug |-> SlugOfPath(relativePath),
   filePath |-> PathJoin(CONTENT_DIR, relativePath),
   relativePath |-> relativePath]

\* parseMarkdownFile of the batch export (build.ts), which also stores a title
build_parseMarkdownFile(raw, relativePath) ==
  [frontmatter |-> raw.data,
   content |-> Sanitize(Marked(raw.content)),
   slug |-> SlugOfPath(relativePath),
   title |-> IF raw.data.title # <<>> THEN raw.data.title ELSE SlugOfPath(relativePath),
   relativePath |-> relativePath]

(***************************************************************************)
(* markdownCache: a JavaScript Map, which iterates in insertion order.     *)
(***************************************************************************)
MapHas(m, k) == \E i \in 1..Len(m) : m[i].k = k
MapIndex(m, k) == CHOOSE i \in 1..Len(m) : m[i].k = k
\* Map.prototype.get; callers test MapHas first (undefined otherwise)
MapGet(m, k) == m[MapIndex(m, k)].v
\* a set that keeps the metadata of the record it finds under the key
MapSetMerges(m, k, v) ==
  IF MapHas(m, k)
  THEN [m EXCEPT ![MapIndex(m, k)] =
          [k |-> k, v |-> [v EXCEPT !.frontmatter = m[MapIndex(m, k)].v.frontmatter]]]
  ELSE Append(m, [k |-> k, v |-> v])

\* Map.prototype.set: replaces in place, or appends a new key
MapSet(m, k, v) ==
  IF MapHas(m, k)
  THEN [m EXCEPT ![MapIndex(m, k)] = [k |-> k, v |-> v]]
  ELSE Append(m, [k |-> k, v |-> v])
\* a delete that leaves the entry in place
MapDeleteKeeps(m, k) == m

\* Map.prototype.delete
MapDelete(m, k) ==
  IF MapHas(m, k)
  THEN [i \in 1..(Len(m) - 1) |-> IF i < MapIndex(m, k) THEN m[i] ELSE m[i + 1]]
  ELSE m
\* Array.from(map.values())
MapValues(m) == [i \in 1..Len(m) |-> m[i].v]
MapKeys(m) == {m[i].k : i \in 1..Len(m)}

(***************************************************************************)
(* buildFileTree: the nodes and the sort.                                  *)
(***************************************************************************)
\* a comparator that puts files before folders
CompareNodesFilesFirst(a, b) ==
  IF a.type # b.type THEN (IF a.type = "file" THEN -1 ELSE 1)
  ELSE LocaleCompare(a.name, b.name)

\* the comparator of both sorts: same kind by name, else folders first
CompareNodes(a, b) ==
  IF a.type = b.type THEN LocaleCompare(a.name, b.name)
  ELSE IF a.type = "folder" THEN -1 ELSE 1

RECURSIVE InsertNode(_, _)
InsertNode(sorted, n) ==
  IF sorted = <<>> THEN <<n>>
  ELSE IF CompareNodes(n, Head(sorted)) < 0 THEN <<n>> \o sorted
  ELSE <<Head(sorted)>> \o InsertNode(Tail(sorted), n)

RECURSIVE SortNodes(_)
\* Array.prototype.sort with CompareNodes (stable)
SortNodes(nodes) ==
  IF nodes = <<>> THEN <<>>
  ELSE InsertNode(SortNodes(SubSeq(nodes, 1, Len(nodes) - 1)), nodes[Len(nodes)])

\* cached?.frontmatter?.title || entry.name.replace(/\.md$/, '')
NodeTitle(cache, slug, name) ==
  IF MapHas(cache, slug) /\ MapGet(cache, slug).frontmatter.title # <<>>
  THEN MapGet(cache, slug).frontmatter.title
  ELSE StripMd(name)

\* the file node pushed for a Dirent whose name ends with .md
FileNode(cache, dirRel, e) ==
  [name |-> StripMd(e.name),
   path |-> PathJoin(dirRel, e.name),
   type |-> "file",
   title |-> NodeTitle(cache, SlugOfPath(PathJoin(dirRel, e.name)), e.name),
   children |-> <<>>]

\* the folder node pushed for a directory Dirent
FolderNode(dirRel, e, children) ==
  [name |-> e.name,
   path |-> PathJoin(dirRel, e.name),
   type |-> "folder",
   title |-> <<>>,
   children |-> SortNodes(children)]

\* the entries of one readdir result that the loop turns into file nodes
MdEntries(ents) == {e \in ents : ~IsDirectory(e) /\ EndsWithMd(e.name)}
DirEntries(ents) == {e \in ents : IsDirectory(e)}

\* the file nodes of the entries in order, titles read from the cache
FileNodes(cache, dirRel, order) ==
  [i \in 1..Len(order) |-> FileNode(cache, dirRel, order[i])]

(***************************************************************************)
(* The walks over an unchanging disk (the initial load runs before the     *)
(* watcher and the HTTP listener exist).                                   *)
(***************************************************************************)
RECURSIVE LoadEntries(_, _, _, _, _)
\* loadMarkdownFilesRecursive(dir, relativePath): the for loop over the
\* entries in readdir order; fOrder is the readdir order of the folder
LoadEntries(cache, d, dirRel, order, fOrder) ==
  IF order = <<>> THEN cache
  ELSE LET e == Head(order)
           relPath == PathJoin(dirRel, e.name)
           after ==
             IF IsDirectory(e)
             THEN LoadEntries(cache, d, relPath, fOrder, <<>>)
             ELSE IF EndsWithMd(e.name)
             THEN LET parsed == parseMarkdownFile(d[relPath], relPath)
                  IN  MapSet(cache, parsed.slug, parsed)
             ELSE cache
       IN  LoadEntries(after, d, dirRel, Tail(order), fOrder)

RECURSIVE BuildEntries(_, _, _, _)
\* buildFileTree(dir, relativePath): the for loop over the entries in readdir
\* order (nodes before the sort)
BuildEntries(cache, dirRel, order, fOrder) ==
  IF order = <<>> THEN <<>>
  ELSE LET e == Head(order)
           rest == BuildEntries(cache, dirRel, Tail(order), fOrder)
       IN  IF IsDirectory(e)
           THEN <<FolderNode(dirRel, e,
                    SortNodes(BuildEntries(cache, PathJoin(dirRel, e.name), fOrder, <<>>)))>>
                \o rest
           ELSE IF EndsWithMd(e.name)
           THEN <<FileNode(cache, dirRel, e)>> \o rest
           ELSE rest

\* buildFileTree(CONTENT_DIR) with nothing interleaved
buildFileTree(cache, rootOrder, fOrder) ==
  SortNodes(BuildEntries(cache, <<>>, rootOrder, fOrder))

(***************************************************************************)
(* The batch export (build.ts): allPages is an array the load appends to,  *)
(* and the tree builder looks a page up by the first record of its slug.   *)
(* Its sorts and its folder nodes are those of the service, line by line.  *)
(***************************************************************************)
\* allPages.find(p => p.slug === slug): the index of the first record of the
\* slug, 0 when there is none
build_FindIndex(pages, slug) ==
  IF \E i \in 1..Len(pages) : pages[i].slug = slug
  THEN CHOOSE i \in 1..Len(pages) :
         /\ pages[i].slug = slug
         /\ \A j \in 1..(i - 1) : pages[j].slug # slug
  ELSE 0

\* page?.frontmatter?.title || entry.name.replace(/\.md$/, '')
build_NodeTitle(pages, slug, name) ==
  LET i == build_FindIndex(pages, slug)
  IN  IF i # 0 /\ pages[i].frontmatter.title # <<>>
      THEN pages[i].frontmatter.title
      ELSE StripMd(name)

\* the file node the export pushes for a Dirent whose name ends with .md
build_FileNode(pages, dirRel, e) ==
  [name |-> StripMd(e.name),
   path |-> PathJoin(dirRel, e.name),
   type |-> "file",
   title |-> build_NodeTitle(pages, SlugOfPath(PathJoin(dirRel, e.name)), e.name),
   children |-> <<>>]

RECURSIVE build_LoadEntries(_, _, _, _, _)
\* loadMarkdownFilesRecursive of the export: every parsed record is pushed
build_LoadEntries(pages, d, dirRel, order, fOrder) ==
  IF order = <<>> THEN pages
  ELSE LET e == Head(order)
           relPath == PathJoin(dirRel, e.name)
           after ==
             IF IsDirectory(e)
             THEN build_LoadEntries(pages, d, relPath, fOrder, <<>>)
             ELSE IF EndsWithMd(e.name)
             THEN Append(pages, build_parseMarkdownFile(d[relPath], relPath))
             ELSE pages
       IN  build_LoadEntries(after, d, dirRel, Tail(order), fOrder)

RECURSIVE build_BuildEntries(_, _, _, _)
\* buildFileTree of the export: the for loop over the entries in readdir order
build_BuildEntries(pages, dirRel, order, fOrder) ==
  IF order = <<>> THEN <<>>
  ELSE LET e == Head(order)
           rest == build_BuildEntries(pages, dirRel, Tail(order), fOrder)
       IN  IF IsDirectory(e)
           THEN <<FolderNode(dirRel, e,
                    SortNodes(build_BuildEntries(pages, PathJoin(dirRel, e.name),
                                                 fOrder, <<>>)))>>
                \o rest
           ELSE IF EndsWithMd(e.name)
           THEN <<build_FileNode(pages, dirRel, e)>> \o rest
           ELSE rest

\* buildFileTree(CONTENT_DIR) of the export
build_buildFileTree(pages, rootOrder, fOrder) ==
  SortNodes(build_BuildEntries(pages, <<>>, rootOrder, fOrder))

\* build(): allPages = [], the full load, then the tree, on the disk d
build(d, rootOrder, fOrder) ==
  LET pages == build_LoadEntries(<<>>, d, <<>>, rootOrder, fOrder)
  IN  [allPages |-> pages, fileTree |-> build_buildFileTree(pages, rootOrder, fOrder)]

(***************************************************************************)
(* State.                                                                  *)
(***************************************************************************)
VARIABLES
  disk,           \* the content directory: relative path -> file content
  markdownCache,  \* Map<string, PageData>, in insertion order
  fileTree,       \* the published tree
  phase,          \* "starting" | "serving" | "down" (the process has ended)
  pending,        \* watcher events raised and not yet delivered
  handlers,       \* the handlers (and detached rebuilds) in flight: a bag of records
  nChanges,       \* filesystem changes so far
  resp,           \* the last HTTP response sent
  scenario,       \* which environment drives the run (fixed by the initial state)
  log,            \* history: the events raised, in order (kept in the race scenario)
  unlinked        \* history: the paths whose unlink has been handled, until their next add event

vars == <<disk, markdownCache, fileTree, phase, pending, handlers, nChanges,
          resp, scenario, log, unlinked>>

NoRaw == [data |-> [title |-> <<>>, description |-> <<>>], content |-> <<>>]

\* some enumeration of a set (where the order does not reach the result)
SeqOf(S) == CHOOSE s \in Perms(S) : TRUE

\* the disks the service may be started on
InitRaw(p) == IF p = FileA THEN RawAlpha ELSE RawPlain
InitDisks ==
  {[p \in S |-> InitRaw(p)] : S \in SUBSET DocPaths}

\* no response sent yet
NoPage == [title |-> <<>>, content |-> <<>>, frontmatter |-> NoRaw.data, slug |-> <<>>]
NoResp ==
  [route |-> "none", req |-> <<>>, status |-> 0, error |-> "", lookup |-> FALSE,
   page |-> NoPage, list |-> <<>>]

(***************************************************************************)
(* A generated flat content directory of n documents named by two letters, *)
(* for the search over more records than one answer may hold.              *)
(***************************************************************************)
Letters == <<"a", "b", "f", "g", "n">>
GenPath(i) ==
  <<Letters[((i - 1) \div Len(Letters)) + 1], Letters[((i - 1) % Len(Letters)) + 1]>> \o Md
GenRaw(pattern, i) ==
  CASE pattern = "titled" -> RawAlpha
    [] pattern = "plain" -> RawPlain
    [] pattern = "mixed" -> IF i % 3 = 0 THEN RawAlpha ELSE RawPlain
    [] OTHER -> IF i = MaxPages \div 2 THEN RawPlain ELSE RawAlpha
GenDisks ==
  {[p \in {GenPath(i) : i \in 1..n} |->
      GenRaw(pattern, CHOOSE i \in 1..n : GenPath(i) = p)] :
     n \in 0..MaxPages, pattern \in {"titled", "plain", "mixed", "skipone"}}

\* module load on one of the disks: an empty cache and tree, nothing started
BootOn(disks) ==
  /\ disk \in disks
  /\ markdownCache = <<>>
  /\ fileTree = <<>>
  /\ phase = "starting"
  /\ pending = <<>>
  /\ handlers = EmptyBag
  /\ nChanges = 0
  /\ resp = NoResp
  /\ log = <<>>
  /\ unlinked = {}

Init == BootOn(InitDisks) /\ scenario = "watch"

(***************************************************************************)
(* startServer: loadAllMarkdownFiles, then watchMarkdownFiles and listen.  *)
(***************************************************************************)
loadAllMarkdownFiles(rootOrder, fOrder) ==
  /\ markdownCache' = LoadEntries(<<>>, disk, <<>>, rootOrder, fOrder)
  /\ fileTree' = buildFileTree(markdownCache', rootOrder, fOrder)

RECURSIVE InsertByName(_, _)
InsertByName(sorted, e) ==
  IF sorted = <<>> THEN <<e>>
  ELSE IF LocaleCompare(e.name, Head(sorted).name) < 0 THEN <<e>> \o sorted
  ELSE <<Head(sorted)>> \o InsertByName(Tail(sorted), e)

RECURSIVE ByName(_)
\* the entries of a directory by ascending name
ByName(S) ==
  IF S = {} THEN <<>>
  ELSE LET e == CHOOSE x \in S : TRUE IN InsertByName(ByName(S \ {e}), e)

Reverse(q) == [i \in 1..Len(q) |-> q[Len(q) + 1 - i]]

\* the orders readdir may list a directory in: any order (for the generated
\* directories: by name, ascending or descending)
ReaddirOrders(S) ==
  IF scenario = "search" THEN {ByName(S), Reverse(ByName(S))} ELSE Perms(S)

\* a startup that registers the watcher and listens without awaiting the load
startServerNoAwait ==
  /\ phase = "starting"
  /\ phase' = "serving"
  /\ UNCHANGED <<disk, markdownCache, fileTree, pending, handlers, nChanges, resp,
                 scenario, log, unlinked>>

\* startServer with every read of the load succeeding
startServer ==
  /\ phase = "starting"
  /\ \E rootOrder \in ReaddirOrders(Readdir(disk, <<>>)),
        fOrder \in ReaddirOrders(Readdir(disk, FolderF)) :
       loadAllMarkdownFiles(rootOrder, fOrder)
  /\ phase' = "serving"
  /\ UNCHANGED <<disk, pending, handlers, nChanges, resp, scenario, log, unlinked>>

(***************************************************************************)
(* The filesystem, and chokidar raising one event per change.              *)
(***************************************************************************)
Event(kind, path) == [kind |-> kind, path |-> path]

InFlight == BagToSet(handlers)

\* the race scenario: an add and an unlink on different paths, in either
\* order, then one further event once both handlers have returned (the
\* unlink handler returns without awaiting its rebuild)
RaceAllows(kind, p) ==
  CASE Len(log) = 0 -> kind \in {"add", "unlink"}
    [] Len(log) = 1 -> kind \in {"add", "unlink"} \ {log[1].kind} /\ p # log[1].path
    [] Len(log) = 2 -> pending = <<>> /\ \A h \in InFlight : h.kind = "unlink"
    [] OTHER -> FALSE

EventBudget ==
  CASE scenario = "api" -> MaxApiEvents
    [] scenario = "fault" -> MaxFaultEvents
    [] scenario = "mix" -> MaxMixEvents
    [] scenario = "collide" -> MaxSlugEvents
    [] OTHER -> MaxEvents

\* whether the environment may change the file p now
CanRaise(kind, p) ==
  /\ phase = "serving"
  /\ IF scenario = "race" THEN RaceAllows(kind, p) ELSE nChanges < EventBudget

\* history kept in each rebuild: after is the set of paths whose unlink had
\* been handled when the rebuild started, gone those of them that have not
\* been created again on disk since their removal
Recreated(p) ==
  LET S == BagToSet(handlers)
      f(h) == [h EXCEPT !.gone = @ \ {p}]
      img == {f(h) : h \in S}
  IN  [g \in img |-> LET pre == {h \in S : f(h) = g}
                         n[T \in SUBSET pre] ==
                           IF T = {} THEN 0
                           ELSE LET h == CHOOSE x \in T : TRUE
                                IN  handlers[h] + n[T \ {h}]
                     IN  n[pre]]

\* history kept in each rebuild (in the scenario that records it): seen is
\* the set of (disk, store) pairs that existed while the rebuild was in
\* flight.  Observed adds the pair (d, c) to every rebuild of the bag B
Observed(B, d, c) ==
  IF scenario # "mix" THEN B
  ELSE LET S == BagToSet(B)
           f(h) == IF h.pc \in {"readdirRoot", "gotRoot", "readdirF", "gotF"}
                   THEN [h EXCEPT !.seen = @ \cup {[d |-> d, c |-> c]}]
                   ELSE h
           img == {f(h) : h \in S}
       IN  [g \in img |-> LET pre == {h \in S : f(h) = g}
                              n[T \in SUBSET pre] ==
                                IF T = {} THEN 0
                                ELSE LET h == CHOOSE x \in T : TRUE
                                     IN  B[h] + n[T \ {h}]
                          IN  n[pre]]

\* chokidar queues the event of a change
Raise(kind, p) ==
  /\ pending' = Append(pending, Event(kind, p))
  /\ nChanges' = nChanges + 1
  /\ log' = IF scenario = "race" THEN Append(log, Event(kind, p)) ELSE log

FsCreate ==
  /\ \E p \in DocPaths \ DOMAIN disk, r \in Raws :
       /\ CanRaise("add", p)
       /\ disk' = [q \in DOMAIN disk \cup {p} |-> IF q = p THEN r ELSE disk[q]]
       /\ Raise("add", p)
       /\ handlers' = Observed(Recreated(p), disk', markdownCache)
  /\ UNCHANGED <<markdownCache, fileTree, phase, resp, scenario, unlinked>>

FsWrite ==
  /\ \E p \in DOMAIN disk, r \in Raws :
       /\ CanRaise("change", p)
       /\ r # disk[p]
       /\ disk' = [disk EXCEPT ![p] = r]
       /\ Raise("change", p)
       /\ handlers' = Observed(handlers, disk', markdownCache)
  /\ UNCHANGED <<markdownCache, fileTree, phase, resp, scenario, unlinked>>

FsUnlink ==
  /\ \E p \in DOMAIN disk :
       /\ CanRaise("unlink", p)
       /\ disk' = [q \in DOMAIN disk \ {p} |-> disk[q]]
       /\ Raise("unlink", p)
       /\ handlers' = Observed(handlers, disk', markdownCache)
  /\ UNCHANGED <<markdownCache, fileTree, phase, resp, scenario, unlinked>>

(***************************************************************************)
(* watchMarkdownFiles: the three handlers.  A handler in flight is a       *)
(* record; pc is the await it is suspended at:                             *)
(*   readFile     fs.readFile issued                                       *)
(*   gotFile      the read has returned its bytes, continuation not run    *)
(*   readdirRoot  buildFileTree has issued readdir(CONTENT_DIR)            *)
(*   gotRoot      that readdir has returned, continuation not run          *)
(*   readdirF     the recursive call has issued readdir of the folder      *)
(*   gotF         that readdir has returned, continuation not run          *)
(* A handler that has published its tree, or has thrown, leaves the bag.   *)
(* Nothing orders the handlers in flight, so they are kept as a bag.       *)
(***************************************************************************)
Handler(kind, path, pc) ==
  [kind |-> kind, path |-> path, pc |-> pc, raw |-> NoRaw,
   rootEnts |-> {}, preNodes |-> <<>>, postEnts |-> {}, fEnts |-> {},
   after |-> {}, gone |-> {}, seen |-> {}]

Spawn(h) == handlers (+) SetToBag({h})
Retire(h) == handlers (-) SetToBag({h})
Resume(h, h2) == (handlers (-) SetToBag({h})) (+) SetToBag({h2})

\* events are delivered in order per path, in any order across paths
Deliverable(i) ==
  /\ i \in 1..Len(pending)
  /\ \A j \in 1..(i - 1) : pending[j].path # pending[i].path

RemoveAt(s, i) == [j \in 1..(Len(s) - 1) |-> IF j < i THEN s[j] ELSE s[j + 1]]

\* .on('add', ...) up to its first await
OnAdd ==
  /\ \E i \in 1..Len(pending) :
       /\ Deliverable(i) /\ pending[i].kind = "add"
       /\ handlers' = Spawn(Handler("add", pending[i].path, "readFile"))
       /\ unlinked' = unlinked \ {pending[i].path}
       /\ pending' = RemoveAt(pending, i)
  /\ UNCHANGED <<disk, markdownCache, fileTree, phase, nChanges, resp, scenario, log>>

\* .on('change', ...) up to its first await
OnChange ==
  /\ \E i \in 1..Len(pending) :
       /\ Deliverable(i) /\ pending[i].kind = "change"
       /\ handlers' = Spawn(Handler("change", pending[i].path, "readFile"))
       /\ pending' = RemoveAt(pending, i)
  /\ UNCHANGED <<disk, markdownCache, fileTree, phase, nChanges, resp, scenario, log, unlinked>>

\* .on('unlink', ...) for the i-th queued event: the whole handler; its
\* rebuild is started and not awaited
OnUnlinkAt(i) ==
  /\ Deliverable(i) /\ pending[i].kind = "unlink"
  /\ markdownCache' = MapDelete(markdownCache, SlugOfPath(pending[i].path))
  /\ unlinked' = unlinked \cup {pending[i].path}
  /\ handlers' = Observed(Spawn([Handler("unlink", pending[i].path, "readdirRoot")
                                    EXCEPT !.after = unlinked',
                                           !.gone = unlinked' \ DOMAIN disk]),
                          disk, markdownCache')
  /\ pending' = RemoveAt(pending, i)
  /\ UNCHANGED <<disk, fileTree, phase, nChanges, resp, scenario, log>>

OnUnlink == \E i \in 1..Len(pending) : OnUnlinkAt(i)

\* the process ends: its memory, its watcher and its listener are gone
Crash ==
  /\ phase' = "down"
  /\ markdownCache' = <<>>
  /\ fileTree' = <<>>
  /\ pending' = <<>>
  /\ handlers' = EmptyBag

\* the promise of handler h rejects.  No handler has a try/catch and no
\* promise a .catch, so the rejection is unhandled: the runtime either only
\* warns (the handler is over, nothing after its await runs) or ends the
\* process, depending on its unhandled-rejections mode
Rejected(h) ==
  \/ /\ handlers' = Retire(h)
     /\ UNCHANGED <<markdownCache, fileTree, phase, pending>>
  \/ Crash

\* fs.readFile of handler h performs its read: the bytes on disk now, or
\* ENOENT when the file is gone
ReadFileBy(h) ==
  /\ h \in InFlight /\ h.pc = "readFile"
  /\ IF h.path \in DOMAIN disk
     THEN /\ handlers' = Resume(h, [h EXCEPT !.pc = "gotFile", !.raw = disk[h.path]])
          /\ UNCHANGED <<markdownCache, fileTree, phase, pending>>
     ELSE Rejected(h)
  /\ UNCHANGED <<disk, nChanges, resp, scenario, log, unlinked>>

ReadFile == \E h \in InFlight : ReadFileBy(h)

\* the loader of handler h fails on a file that exists: fs.readFile rejects
\* (EACCES, EIO) or matter() throws on its front matter
LoaderFailsBy(h) ==
  /\ scenario = "fault"
  /\ h \in InFlight /\ h.pc = "readFile"
  /\ Rejected(h)
  /\ UNCHANGED <<disk, nChanges, resp, scenario, log, unlinked>>

LoaderFails == \E h \in InFlight : LoaderFailsBy(h)

\* a readdir of the walk of handler h rejects (the directory is gone or
\* unreadable): buildFileTree rejects, nothing after it runs
ReaddirFailsBy(h) ==
  /\ scenario = "fault"
  /\ h \in InFlight /\ h.pc \in {"readdirRoot", "readdirF"}
  /\ Rejected(h)
  /\ UNCHANGED <<disk, nChanges, resp, scenario, log, unlinked>>

ReaddirFails == \E h \in InFlight : ReaddirFailsBy(h)

\* a read of the initial load rejects: startServer rejects at its first await,
\* watchMarkdownFiles and app.listen are never called, and the process ends
\* (by the unhandled rejection, or with nothing left to keep it running)
LoadFails ==
  /\ scenario = "fault"
  /\ phase = "starting"
  /\ Crash
  /\ UNCHANGED <<disk, nChanges, resp, scenario, log, unlinked>>

\* the continuation of the read of handler h: matter, marked, sanitize,
\* markdownCache.set, and buildFileTree up to its readdir
ParsedBy(h) ==
  /\ h \in InFlight /\ h.pc = "gotFile"
  /\ LET parsed == parseMarkdownFile(h.raw, h.path)
     IN  markdownCache' = MapSet(markdownCache, parsed.slug, parsed)
  /\ handlers' = Observed(Resume(h, [h EXCEPT !.pc = "readdirRoot", !.raw = NoRaw,
                                               !.after = unlinked,
                                               !.gone = unlinked \ DOMAIN disk]),
                          disk, markdownCache')
  /\ UNCHANGED <<disk, fileTree, phase, pending, nChanges, resp, scenario, log, unlinked>>

Parsed == \E h \in InFlight : ParsedBy(h)

\* readdir(CONTENT_DIR) performs its read
ReaddirRoot ==
  /\ \E h \in InFlight :
       /\ h.pc = "readdirRoot"
       /\ handlers' = Resume(h, [h EXCEPT !.pc = "gotRoot", !.rootEnts = Readdir(disk, <<>>)])
  /\ UNCHANGED <<disk, markdownCache, fileTree, phase, pending, nChanges,
                 resp, scenario, log, unlinked>>

\* the loop over the root entries up to the directory entry: the files that
\* readdir listed before it get their nodes (and titles) now
GotRoot ==
  /\ \E h \in InFlight :
       /\ h.pc = "gotRoot"
       /\ \E pre \in SUBSET MdEntries(h.rootEnts) :
            handlers' =
              Resume(h, [h EXCEPT !.pc = "readdirF",
                                  !.rootEnts = {},
                                  !.preNodes = SortNodes(FileNodes(markdownCache, <<>>, SeqOf(pre))),
                                  !.postEnts = MdEntries(h.rootEnts) \ pre])
  /\ UNCHANGED <<disk, markdownCache, fileTree, phase, pending, nChanges,
                 resp, scenario, log, unlinked>>

\* readdir of the folder performs its read
ReaddirF ==
  /\ \E h \in InFlight :
       /\ h.pc = "readdirF"
       /\ handlers' = Resume(h, [h EXCEPT !.pc = "gotF", !.fEnts = Readdir(disk, FolderF)])
  /\ UNCHANGED <<disk, markdownCache, fileTree, phase, pending, nChanges,
                 resp, scenario, log, unlinked>>

\* the tree a suspended walk returns: the folder's loop and sort, the rest of
\* the root loop, the root sort
WalkResult(h, cache) ==
  SortNodes(h.preNodes
            \o <<FolderNode(<<>>, [name |-> FolderF, kind |-> "dir"],
                   SortNodes(FileNodes(cache, FolderF, SeqOf(MdEntries(h.fEnts)))))>>
            \o FileNodes(cache, <<>>, SeqOf(h.postEnts)))

\* the continuation of the folder's readdir of handler h, through both
\* returns, to fileTree = ... and the end of the handler
GotFBy(h) ==
  /\ h \in InFlight /\ h.pc = "gotF"
  /\ fileTree' = WalkResult(h, markdownCache)
  /\ handlers' = Retire(h)
  /\ UNCHANGED <<disk, markdownCache, phase, pending, nChanges, resp, scenario, log, unlinked>>

GotF == \E h \in InFlight : GotFBy(h)

(***************************************************************************)
(* The JSON routes.  A route handler runs to completion without awaiting.  *)
(***************************************************************************)
\* page.frontmatter.title || slug of a stored record
EffectiveTitleOf(page) ==
  IF page.frontmatter.title # <<>> THEN page.frontmatter.title ELSE page.slug

\* the character class [a-zA-Z0-9/_-] over the characters of the model
IsSlugChar(c) ==
  c \in {"a", "b", "d", "f", "g", "h", "m", "n", "p", "x", "A", "B", "H", "0", "/", "_", "-"}

\* the route pattern /^\/api\/page\/([a-zA-Z0-9/_-]+)$/ on the rest of the
\* request path after /api/page/ (no % can be captured, so Express's decoding
\* of the captured parameter changes nothing)
RouteMatches(rest) ==
  Len(rest) >= 1 /\ \A i \in 1..Len(rest) : IsSlugChar(rest[i])

validateSlug(slug) ==
  IF Includes(slug, <<".", ".">>) THEN FALSE
  ELSE IF ~(Len(slug) >= 1 /\ \A i \in 1..Len(slug) : IsSlugChar(slug[i])) THEN FALSE
  ELSE TRUE

\* a page handler that reads the fields of the record without testing that
\* the lookup found one
PageResponseNoCheck(cache, rest) ==
  IF ~RouteMatches(rest)
  THEN [NoResp EXCEPT !.route = "unmatched", !.req = rest, !.status = 404,
                      !.error = "Cannot GET"]
  ELSE IF ~MapHas(cache, rest)
  THEN [NoResp EXCEPT !.route = "page", !.req = rest, !.status = 500,
                      !.error = "TypeError", !.lookup = TRUE]
  ELSE [NoResp EXCEPT !.route = "page", !.req = rest, !.status = 200, !.lookup = TRUE,
                      !.page = [title |-> EffectiveTitleOf(MapGet(cache, rest)),
                                content |-> MapGet(cache, rest).content,
                                frontmatter |-> MapGet(cache, rest).frontmatter,
                                slug |-> rest]]

\* the answer to GET /api/page/<rest>; lookup records whether markdownCache.get ran
PageResponse(cache, rest) ==
  IF ~RouteMatches(rest)
  THEN [NoResp EXCEPT !.route = "unmatched", !.req = rest, !.status = 404,
                      !.error = "Cannot GET"]
  ELSE IF ~validateSlug(rest)
  THEN [NoResp EXCEPT !.route = "page", !.req = rest, !.status = 400,
                      !.error = "Invalid page path"]
  ELSE IF ~MapHas(cache, rest)
  THEN [NoResp EXCEPT !.route = "page", !.req = rest, !.status = 404,
                      !.error = "Page not found", !.lookup = TRUE]
  ELSE LET page == MapGet(cache, rest)
       IN  [NoResp EXCEPT !.route = "page", !.req = rest, !.status = 200, !.lookup = TRUE,
                          !.page = [title |-> IF page.frontmatter.title # <<>>
                                              THEN page.frontmatter.title ELSE rest,
                                    content |-> page.content,
                                    frontmatter |-> page.frontmatter,
                                    slug |-> rest]]

\* the request paths tried against /api/page/
ReqSlugs ==
  {SlugOfPath(p) : p \in DocPaths}
    \cup {<<"b">>, <<".", ".">>, <<"a", "/", ".", ".">>, <<"a", "%">>, FileA}

\* a page route that remembers a miss by storing an empty record
ApiPageOfCaching(rest) ==
  /\ phase = "serving"
  /\ resp' = PageResponse(markdownCache, rest)
  /\ markdownCache' =
       IF RouteMatches(rest) /\ ~MapHas(markdownCache, rest)
       THEN MapSet(markdownCache, rest, parseMarkdownFile(NoRaw, rest))
       ELSE markdownCache
  /\ UNCHANGED <<disk, fileTree, phase, pending, handlers, nChanges,
                 scenario, log, unlinked>>

\* GET /api/page/<rest>
ApiPageOf(rest) ==
  /\ phase = "serving"
  /\ resp' = PageResponse(markdownCache, rest)
  /\ UNCHANGED <<disk, markdownCache, fileTree, phase, pending, handlers, nChanges,
                 scenario, log, unlinked>>

ApiPage == \E rest \in ReqSlugs : ApiPageOf(rest)

\* the 20 of .slice(0, 20) and the 100 of query.length > 100
MaxResults == 20
MaxQueryLen == 100

\* page.frontmatter.title || page.slug
EffectiveTitle(page) ==
  IF page.frontmatter.title # <<>> THEN page.frontmatter.title ELSE page.slug

\* a filter that looks at the title only
MatchesTitleOnly(page, query) ==
  Includes(ToLowerCase(EffectiveTitle(page)), query)

\* the filter callback
Matches(page, query) ==
  \/ Includes(ToLowerCase(EffectiveTitle(page)), query)
  \/ Includes(ToLowerCase(page.content), query)

\* the map callback
ResultOf(page) ==
  [slug |-> page.slug, title |-> EffectiveTitle(page),
   description |-> page.frontmatter.description]

RECURSIVE Filter(_, _)
\* Array.prototype.filter with Matches
Filter(pages, query) ==
  IF pages = <<>> THEN <<>>
  ELSE (IF Matches(Head(pages), query) THEN <<Head(pages)>> ELSE <<>>)
       \o Filter(Tail(pages), query)

\* a slice that keeps one element more
SliceToInclusive(q, n) == SubSeq(q, 1, IF Len(q) < n + 1 THEN Len(q) ELSE n + 1)

\* Array.prototype.slice(0, n)
SliceTo(q, n) == SubSeq(q, 1, IF Len(q) < n THEN Len(q) ELSE n)

\* a search that scans the store before it looks at the length of the query
SearchResponseScansFirst(cache, qp) ==
  LET query == ToLowerCase(IF qp.given THEN qp.q ELSE <<>>)
      found == Filter(MapValues(cache), query)
      mapped == [i \in 1..Len(found) |-> ResultOf(found[i])]
  IN  IF query = <<>>
      THEN [NoResp EXCEPT !.route = "search", !.req = query, !.status = 200]
      ELSE IF Len(query) > MaxQueryLen
      THEN [NoResp EXCEPT !.route = "search", !.req = query, !.status = 400,
                          !.error = "Query too long", !.lookup = TRUE]
      ELSE [NoResp EXCEPT !.route = "search", !.req = query, !.status = 200,
                          !.lookup = TRUE, !.list = SliceTo(mapped, MaxResults)]

\* the answer to GET /api/search?q=...; a request without q has given = FALSE;
\* lookup records whether the store was scanned
SearchResponse(cache, qp) ==
  LET query == ToLowerCase(IF qp.given THEN qp.q ELSE <<>>)
  IN  IF query = <<>>
      THEN [NoResp EXCEPT !.route = "search", !.req = query, !.status = 200]
      ELSE IF Len(query) > MaxQueryLen
      THEN [NoResp EXCEPT !.route = "search", !.req = query, !.status = 400,
                          !.error = "Query too long"]
      ELSE LET found == Filter(MapValues(cache), query)
               mapped == [i \in 1..Len(found) |-> ResultOf(found[i])]
           IN  [NoResp EXCEPT !.route = "search", !.req = query, !.status = 200,
                              !.lookup = TRUE, !.list = SliceTo(mapped, MaxResults)]

\* the q parameters tried
Queries ==
  {<<>>, <<"a">>, <<"A", "B">>, <<"h">>, <<"z">>, <<"<", "x">>,
   [i \in 1..MaxQueryLen |-> "a"], [i \in 1..(MaxQueryLen + 1) |-> "A"]}
QueryParams ==
  {[given |-> FALSE, q |-> <<>>]} \cup {[given |-> TRUE, q |-> t] : t \in Queries}

\* GET /api/search
ApiSearchOf(qp) ==
  /\ phase = "serving"
  /\ resp' = SearchResponse(markdownCache, qp)
  /\ UNCHANGED <<disk, markdownCache, fileTree, phase, pending, handlers, nChanges,
                 scenario, log, unlinked>>

ApiSearch == \E qp \in QueryParams : ApiSearchOf(qp)

\* GET /api/tree
ApiTree ==
  /\ phase = "serving"
  /\ resp' = [NoResp EXCEPT !.route = "tree", !.status = 200, !.list = fileTree]
  /\ UNCHANGED <<disk, markdownCache, fileTree, phase, pending, handlers, nChanges,
                 scenario, log, unlinked>>

Next ==
  \/ startServer
  \/ FsCreate \/ FsWrite \/ FsUnlink
  \/ OnAdd \/ OnChange \/ OnUnlink
  \/ ReadFile \/ Parsed \/ ReaddirRoot \/ GotRoot \/ ReaddirF \/ GotF

Spec == Init /\ [][Next]_vars

\* the watcher under the race scenario
InitRace == BootOn(InitDisks) /\ scenario = "race"
SpecRace == InitRace /\ [][Next]_vars

\* the watcher together with the HTTP routes
InitApi == BootOn(InitDisks) /\ scenario = "api"
NextApi == Next \/ ApiPage \/ ApiTree \/ ApiSearch
SpecApi == InitApi /\ [][NextApi]_vars

\* the watcher with reads that may fail
InitFault == BootOn(InitDisks) /\ scenario = "fault"
NextFault == Next \/ LoaderFails \/ ReaddirFails \/ LoadFails
SpecFault == InitFault /\ [][NextFault]_vars

\* startup and queries on content directories that hold the symbolic link
LinkDisks ==
  {[p \in DOMAIN d \cup {LinkS} |-> IF p = LinkS THEN RawPlain ELSE d[p]] : d \in InitDisks}
InitLinks == BootOn(LinkDisks) /\ scenario = "links"
NextLinks == startServer \/ ApiTree \/ ApiPage
SpecLinks == InitLinks /\ [][NextLinks]_vars

\* startup and queries on content directories that may hold the document
\* whose name has a backslash
SlugDisks ==
  InitDisks \cup
    {[p \in DOMAIN d \cup {FileBackB} |-> IF p = FileBackB THEN RawAlpha ELSE d[p]] :
       d \in InitDisks}
InitSlugs == BootOn(SlugDisks) /\ scenario = "slugs"
SpecSlugs == InitSlugs /\ [][NextLinks]_vars

\* the watcher on content directories that hold the document whose name has
\* a backslash
CollideDisks == {d \in SlugDisks : FileBackB \in DOMAIN d}
InitCollide == BootOn(CollideDisks) /\ scenario = "collide"
SpecCollide == InitCollide /\ [][Next]_vars

\* the watcher, recording in each rebuild the states it ran through
InitMix == BootOn(InitDisks) /\ scenario = "mix"
SpecMix == InitMix /\ [][Next]_vars

\* the search route over the generated content directories
InitSearch == BootOn(GenDisks) /\ scenario = "search"
NextSearch == startServer \/ ApiSearch
SpecSearch == InitSearch /\ [][NextSearch]_vars

(***************************************************************************)
(* Reading a published tree.                                               *)
(***************************************************************************)
RECURSIVE FilePaths(_)
\* the paths of the file nodes of a tree, in preorder
FilePaths(nodes) ==
  IF nodes = <<>> THEN <<>>
  ELSE (IF Head(nodes).type = "file" THEN <<Head(nodes).path>>
        ELSE FilePaths(Head(nodes).children))
       \o FilePaths(Tail(nodes))

\* the slugs a tree lists
TreeSlugs(tree) == {SlugOfPath(FilePaths(tree)[i]) : i \in 1..Len(FilePaths(tree))}

\* a tree lists exactly the documents of the disk d, each once
ListsExactly(tree, d) ==
  LET paths == FilePaths(tree)
  IN  /\ {paths[i] : i \in 1..Len(paths)} = DOMAIN d
      /\ \A i, j \in 1..Len(paths) : paths[i] = paths[j] => i = j

RECURSIVE Ordered(_)
\* at every level: folders before files, names ascending within each kind
Ordered(nodes) ==
  /\ \A i, j \in 1..Len(nodes) :
       i < j =>
         /\ ~(nodes[i].type = "file" /\ nodes[j].type = "folder")
         /\ nodes[i].type = nodes[j].type => LocaleCompare(nodes[i].name, nodes[j].name) < 0
  /\ \A i \in 1..Len(nodes) : nodes[i].type = "folder" => Ordered(nodes[i].children)

\* nothing in flight and nothing queued
Quiescent ==
  phase = "serving" /\ pending = <<>> /\ handlers = EmptyBag

(***************************************************************************)
(* Claims.                                                                 *)
(***************************************************************************)

\* C1: filesystem events are handled one at a time: in every reachable state at
\* most one event handler is between its start and its tree publication.
C1_OneHandlerAtATime ==
  BagCardinality(handlers) <= 1

\* C3: once every handler and every started rebuild has completed and no event
\* is queued, the store holds exactly the documents on disk, each record is the
\* parse of the document's current content, and the tree lists exactly them.
C3_ConsistentWhenQuiescent ==
  Quiescent =>
    /\ MapKeys(markdownCache) = {SlugOfPath(p) : p \in DOMAIN disk}
    /\ \A p \in DOMAIN disk :
         MapHas(markdownCache, SlugOfPath(p)) =>
           MapGet(markdownCache, SlugOfPath(p)) = parseMarkdownFile(disk[p], p)
    /\ ListsExactly(fileTree, disk)

\* C4: once the unlink of a document has been handled, its slug is absent from
\* the store until a later add event for that path occurs.
C4_UnlinkedSlugAbsent ==
  \A p \in unlinked : ~MapHas(markdownCache, SlugOfPath(p))

\* C5: after the initial load the published tree contains every document under
\* the content root exactly once, and at every level folders precede files and
\* names ascend within each kind.
C5_InitialTree ==
  (phase = "serving" /\ nChanges = 0) =>
    ListsExactly(fileTree, disk) /\ Ordered(fileTree)

\* C5 witness: the load has run on a root holding two documents and a folder
\* holding one
C5_Witness ==
  phase = "serving" /\ nChanges = 0 /\ DOMAIN disk = DocPaths /\ Len(fileTree) = 3

\* C2: for an add on X and an unlink on a different Y, however their handlers
\* interleave: once both and one further event's handler (and every rebuild
\* they started) have completed, every file node of the published tree has a
\* record in the store.
C2_RaceSettles ==
  (scenario = "race" /\ Len(log) = 3 /\ Quiescent) =>
    TreeSlugs(fileTree) \subseteq MapKeys(markdownCache)

\* the store after an unlink answers a page request for the slug with not-found
UnlinkTakesEffect ==
  \A i \in 1..Len(pending) :
    OnUnlinkAt(i) =>
      /\ ~MapHas(markdownCache', SlugOfPath(pending[i].path))
      /\ PageResponse(markdownCache', SlugOfPath(pending[i].path)).error = "Page not found"

NoHybrid(cache) ==
  \A i \in 1..Len(cache) :
    /\ cache[i].v \in {parseMarkdownFile(r, p) : r \in Raws, p \in DocPaths}
    /\ cache[i].k = cache[i].v.slug

\* C7: an upsert replaces the whole record under its slug in one step: a get
\* right after it returns exactly the inserted record (title and body), no
\* state holds a record mixing two versions, and the records under every other
\* slug are unchanged.
C7_UpsertWhole ==
  [][/\ NoHybrid(markdownCache')
     /\ \A h \in InFlight :
          ParsedBy(h) =>
            LET rec == parseMarkdownFile(h.raw, h.path)
                got == PageResponse(markdownCache', rec.slug)
            IN  /\ MapHas(markdownCache', rec.slug)
                /\ MapGet(markdownCache', rec.slug) = rec
                /\ got.status = 200
                /\ got.page.content = rec.content
                /\ got.page.frontmatter = rec.frontmatter
                /\ got.page.title =
                     (IF h.raw.data.title # <<>> THEN h.raw.data.title ELSE rec.slug)
                /\ \A k \in (MapKeys(markdownCache) \cup MapKeys(markdownCache')) \ {rec.slug} :
                     /\ MapHas(markdownCache, k) /\ MapHas(markdownCache', k)
                     /\ MapGet(markdownCache', k) = MapGet(markdownCache, k)]_vars

\* C7 witness: a change handler has just replaced the record of its document
\* by one with another title, next to the record of another document
C7_Witness ==
  \E h \in InFlight :
    /\ h.kind = "change" /\ h.pc = "readdirRoot"
    /\ MapHas(markdownCache, SlugOfPath(h.path))
    /\ MapGet(markdownCache, SlugOfPath(h.path)).frontmatter # InitRaw(h.path).data
    /\ Len(markdownCache) >= 2

\* whether an externally supplied slug is malformed: a '..' segment or a
\* character outside [A-Za-z0-9/_-]
Malformed(rest) ==
  Includes(rest, <<".", ".">>) \/ \E i \in 1..Len(rest) : ~IsSlugChar(rest[i])

\* C10: a malformed slug is rejected with a validation error before any store
\* lookup, and the store and the tree are unchanged by the request.
C10_MalformedRejected ==
  [][\A rest \in ReqSlugs :
       (ApiPageOf(rest) /\ Malformed(rest)) =>
         /\ resp'.status = 400 /\ resp'.error = "Invalid page path"
         /\ ~resp'.lookup
         /\ UNCHANGED <<markdownCache, fileTree>>]_vars

\* case-insensitive containment, as the claims word it
ContainsCI(t, q) == Includes(ToLowerCase(t), ToLowerCase(q))

\* whether a record's effective title (metadata title, else slug) or sanitized
\* body contains the query
Hit(page, q) ==
  \/ ContainsCI(IF page.frontmatter.title # <<>> THEN page.frontmatter.title ELSE page.slug, q)
  \/ ContainsCI(page.content, q)

\* the positions of the store, in iteration order, whose record is a hit
HitIdx(cache, q) == {i \in 1..Len(cache) : Hit(cache[i].v, q)}

\* C8: search returns at most 20 results, and the empty list when the query is
\* empty or missing and when no record's title or body contains the query.
C8_SearchBounded ==
  [][\A qp \in QueryParams :
       ApiSearchOf(qp) =>
         /\ Len(resp'.list) <= 20
         /\ (~qp.given \/ qp.q = <<>>) => (resp'.status = 200 /\ resp'.list = <<>>)
         /\ HitIdx(markdownCache, qp.q) = {} => resp'.list = <<>>]_vars

\* C8 witness: a search over more than 20 matching records was answered with 20
C8_Witness ==
  /\ resp.route = "search" /\ resp.status = 200 /\ Len(resp.list) = 20
  /\ Cardinality(HitIdx(markdownCache, resp.req)) > 20

\* C9: for a non-empty query of accepted length, search returns exactly the
\* first 20 records, in the store's iteration order, whose effective title or
\* sanitized body contains the query case-insensitively; each result carries
\* only slug, title and the optional description.
C9_SearchFirstMatches ==
  [][\A qp \in QueryParams :
       (ApiSearchOf(qp) /\ qp.given /\ Len(qp.q) >= 1 /\ Len(qp.q) <= 100) =>
         LET hits == HitIdx(markdownCache, qp.q)
             \* the position in the store of the k-th hit
             at(k) == CHOOSE i \in hits : Cardinality({j \in hits : j <= i}) = k
             n == IF Cardinality(hits) < 20 THEN Cardinality(hits) ELSE 20
         IN  /\ resp'.status = 200
             /\ Len(resp'.list) = n
             /\ \A k \in 1..n :
                  LET page == markdownCache[at(k)].v
                  IN  /\ DOMAIN resp'.list[k] = {"slug", "title", "description"}
                      /\ resp'.list[k].slug = page.slug
                      /\ resp'.list[k].title =
                           (IF page.frontmatter.title # <<>>
                            THEN page.frontmatter.title ELSE page.slug)
                      /\ resp'.list[k].description = page.frontmatter.description]_vars

\* C9 witness: 20 results were returned out of more hits, a record of the
\* store that is no hit was skipped among them, and the results are in the
\* store's order, here descending by name
C9_Witness ==
  /\ resp.route = "search" /\ resp.status = 200 /\ Len(resp.list) = 20
  /\ Cardinality(HitIdx(markdownCache, resp.req)) > 20
  /\ \E k \in 1..Len(resp.list) : resp.list[k].slug # markdownCache[k].k
  /\ LocaleCompare(resp.list[1].slug, resp.list[2].slug) > 0

\* C11: a search whose query is longer than 100 characters is rejected with an
\* error before any record of the store is scanned, and returns no result list.
C11_OversizedRejected ==
  [][\A qp \in QueryParams :
       (ApiSearchOf(qp) /\ qp.given /\ Len(qp.q) > 100) =>
         /\ resp'.status = 400 /\ resp'.error = "Query too long"
         /\ ~resp'.lookup
         /\ resp'.list = <<>>]_vars

\* C11 witness: an oversized query was rejected over a store that holds records
C11_Witness ==
  /\ resp.route = "search" /\ Len(resp.req) > 100 /\ resp.status = 400
  /\ markdownCache # <<>>

\* the loader of handler h fails: its file is gone, unreadable or unparsable
LoaderFailureOf(h) ==
  (ReadFileBy(h) /\ h.path \notin DOMAIN disk) \/ LoaderFailsBy(h)

\* C12: when the loader fails in an add or change handler, the failure is
\* contained: the watch loop keeps handling events (the process lives, the
\* queued events and the other handlers stay), every record of the store,
\* the failing document's prior record included, is left as it was.
C12_LoaderFailureContained ==
  [][\A h \in InFlight :
       LoaderFailureOf(h) =>
         /\ phase' = "serving"
         /\ pending' = pending
         /\ handlers' = Retire(h)
         /\ markdownCache' = markdownCache]_vars

\* C13: when a rebuild fails part-way through its walk, only that rebuild is
\* aborted: the published tree stays published unchanged (the process lives
\* and the other handlers stay), and no partial tree is published.
C13_RebuildFailureContained ==
  [][/\ \A h \in InFlight :
          ReaddirFailsBy(h) =>
            /\ phase' = "serving"
            /\ handlers' = Retire(h)
            /\ fileTree' = fileTree
     /\ LoadFails => fileTree' = fileTree]_vars

\* the store and the tree are those of a completed load of the disk d
LoadedFrom(cache, tree, d) ==
  /\ MapKeys(cache) = {SlugOfPath(p) : p \in DOMAIN d}
  /\ \A p \in DOMAIN d : MapGet(cache, SlugOfPath(p)) = parseMarkdownFile(d[p], p)
  /\ ListsExactly(tree, d)

\* nothing of the watcher or of the query surface has acted
NothingStarted ==
  pending = <<>> /\ handlers = EmptyBag /\ resp = NoResp

\* C14: the watcher is registered and queries are accepted only after the
\* initial load has completed; when a read of the initial load fails, startup
\* is aborted and neither the watcher nor the query surface is ever started.
C14_StartupOrdering ==
  [][/\ phase = "starting" => NothingStarted
     /\ phase' = "starting" => NothingStarted'
     /\ (phase = "starting" /\ phase' = "serving") =>
          LoadedFrom(markdownCache', fileTree', disk')
     /\ LoadFails => (phase' = "down" /\ NothingStarted')
     /\ phase # "down"]_vars

\* C14 witness: a startup on a directory holding documents was aborted
C14_Witness ==
  phase = "down" /\ nChanges = 0 /\ DOMAIN disk = DocPaths /\ resp = NoResp

\* the filename of a document path, without folder and extension
FileNameOf(p) == StripMd(BaseName(p))

\* C15: the title of a page is the metadata title when present and otherwise
\* the document's filename (not its folder-qualified path): for a stored
\* document without metadata title, the page response, the batch export's
\* record and the tree node all report the filename.
C15_TitleFallsBackToFilename ==
  \A p \in DOMAIN disk :
    (/\ phase = "serving"
     /\ MapHas(markdownCache, SlugOfPath(p))
     /\ MapGet(markdownCache, SlugOfPath(p)) = parseMarkdownFile(disk[p], p)
     /\ disk[p].data.title = <<>>) =>
      /\ PageResponse(markdownCache, SlugOfPath(p)).page.title = FileNameOf(p)
      /\ build_parseMarkdownFile(disk[p], p).title = FileNameOf(p)
      /\ FileNode(markdownCache, DirName(p), [name |-> BaseName(p), kind |-> "file"]).title
           = FileNameOf(p)

RECURSIVE NodeNames(_)
\* the names of all nodes of a tree
NodeNames(nodes) ==
  IF nodes = <<>> THEN {}
  ELSE {Head(nodes).name} \cup NodeNames(Head(nodes).children) \cup NodeNames(Tail(nodes))

\* C16: in the walks of the initial load and of the tree build, an entry whose
\* kind is symlink or special file is ignored whatever its name, and an entry
\* that is neither a directory nor a document file is not listed.
C16_OnlyFilesAndFolders ==
  phase = "serving" =>
    \A e \in Readdir(disk, <<>>) :
      /\ e.kind \notin {"dir", "file"} =>
           /\ StripMd(e.name) \notin NodeNames(fileTree)
           /\ ~MapHas(markdownCache, SlugOfPath(e.name))
      /\ (e.kind = "file" /\ ~EndsWithMd(e.name)) => e.name \notin NodeNames(fileTree)

\* C17: the queries never mutate the index: the tree, page and search routes,
\* in any order and between any two steps of the event handlers, leave the
\* store and the published tree unchanged.
C17_QueriesReadOnly ==
  [][(ApiTree \/ ApiPage \/ ApiSearch) => UNCHANGED <<markdownCache, fileTree>>]_vars

\* C17 witness: a page was served while an event handler was in flight
C17_Witness ==
  resp.route = "page" /\ resp.status = 200 /\ handlers # EmptyBag

\* C18: a page request for a well-formed slug that the store does not hold is
\* answered not-found, never with an internal error, also while the published
\* tree still lists the slug.
C18_MissIsNotFound ==
  [][\A rest \in ReqSlugs :
       (ApiPageOf(rest) /\ rest # <<>> /\ ~Malformed(rest) /\ ~MapHas(markdownCache, rest)) =>
         /\ resp'.status = 404
         /\ resp'.error = "Page not found"]_vars

\* C18 witness: not-found was answered for a slug that the published tree
\* still lists, its removal being handled and the rebuild not yet done
C18_Witness ==
  /\ resp.route = "page" /\ resp.status = 404 /\ resp.error = "Page not found"
  /\ resp.req \in TreeSlugs(fileTree)
  /\ ~MapHas(markdownCache, resp.req)
  /\ handlers # EmptyBag

\* C19: slug derivation is injective on document paths: two distinct relative
\* paths of documents under the content root never produce the same slug, so
\* no two documents share a key of the store (after a load the store holds
\* one record per document).
C19_SlugInjective ==
  /\ \A p, q \in DOMAIN disk : p # q => SlugOfPath(p) # SlugOfPath(q)
  /\ phase = "serving" => Len(markdownCache) = Cardinality(DOMAIN disk)

\* what buildFileTree returns when the disk d and the store c stay as they are
\* during the whole walk
TreeOn(d, c) ==
  buildFileTree(c, SeqOf(Readdir(d, <<>>)), SeqOf(Readdir(d, FolderF)))

\* C20: every published tree is the tree builder's result on one single
\* (filesystem state, store state) pair: a rebuild that was suspended between
\* its directory reads while events were handled publishes the tree of one of
\* the pairs that existed while it was in flight.
C20_TreeOfOneState ==
  [][\A h \in InFlight :
       GotFBy(h) => \E s \in h.seen : fileTree' = TreeOn(s.d, s.c)]_vars

\* every entry of the store is keyed by the slug of its own record
KeyedBySlug(cache) == \A i \in 1..Len(cache) : cache[i].k = cache[i].v.slug

\* the slug the tree builder computes for the document path p (from the
\* directory it walks and the name of the entry)
TreeSlugOf(p) == SlugOfPath(PathJoin(DirName(p), BaseName(p)))

\* C21: in every reachable state each store entry is keyed by its own record's
\* slug; the slug the unlink handler computes for a path is the slug the
\* loader and the tree builder compute for that path; so an unlink removes
\* exactly the entry that the add/change of that path inserted (the record
\* parsed from that path) and leaves every other entry unchanged.
C21_UnlinkRemovesOwnEntry ==
  [][/\ KeyedBySlug(markdownCache')
     /\ \A i \in 1..Len(pending) :
          OnUnlinkAt(i) =>
            LET p == pending[i].path
                removed == MapKeys(markdownCache) \ MapKeys(markdownCache')
            IN  /\ \A r \in Raws : removed \subseteq {parseMarkdownFile(r, p).slug}
                /\ removed \subseteq {TreeSlugOf(p)}
                /\ MapKeys(markdownCache') \subseteq MapKeys(markdownCache)
                /\ \A j \in 1..Len(markdownCache') :
                     markdownCache'[j].v.relativePath # p
                /\ \A j \in 1..Len(markdownCache) :
                     markdownCache[j].v.relativePath # p =>
                       /\ MapHas(markdownCache', markdownCache[j].k)
                       /\ MapGet(markdownCache', markdownCache[j].k) = markdownCache[j].v]_vars

\* the slugs of an array of records, each with the body loaded for it
Bodies(recs) == {[slug |-> recs[i].slug, content |-> recs[i].content] : i \in 1..Len(recs)}

\* C22: the batch export and the live service agree on the same content: on
\* any fixed filesystem state (read in the same listing order by both), the
\* set of slugs with their bodies that the export's full load holds, and the
\* tree the export builds (structure, order and display titles), equal the
\* page store and the published tree of the service after its initial load.
C22_ExportAgreesWithService ==
  [][\A rootOrder \in ReaddirOrders(Readdir(disk, <<>>)),
        fOrder \in ReaddirOrders(Readdir(disk, FolderF)) :
       (phase = "starting" /\ loadAllMarkdownFiles(rootOrder, fOrder)) =>
         LET b == build(disk, rootOrder, fOrder)
         IN  /\ Bodies(b.allPages) = Bodies(MapValues(markdownCache'))
             /\ b.fileTree = fileTree']_vars

====
